---------------------------- MODULE Spec2Model ----------------------------
(***************************************************************************)
(* A model of bot.py, the flight status bot: the FR24 schedule row          *)
(* extractor (parse_fr24), the next-flight selector (get_next_two_flights), *)
(* the FlightAware instance resolver (get_fa_instance), the status          *)
(* publisher (refresh_status_internal, status_loop, on_ready and the two    *)
(* slash commands) and the milestone tracker that the design describes.     *)
(*                                                                         *)
(* Text is modelled as a tuple of character codes, so that Python's string *)
(* comparison and datetime.fromisoformat are computed, not assumed.        *)
(* Instants are whole hours since 2025-01-01T00:00Z.                        *)
(***************************************************************************)
EXTENDS Integers, Sequences, FiniteSets, TLC

VARIABLES
    \* schedule extraction and selection
    html,            \* the page: a sequence of <tr> rows, each the texts of its <td> cells
    today,           \* date.today().isoformat()
    flights,         \* what parse_fr24 returned
    next2,           \* what get_next_two_flights returned
    spc,             \* position of the extract/select pipeline
    \* resolver
    fa_query,        \* [flight_no, fr24_date, start, end] of the request
    fa_resp,         \* [status_code, flights] the status source answered
    fa_out,          \* what get_fa_instance returned
    rpc,             \* position of the resolver call
    \* status publisher
    guild_settings,  \* the guild_settings table: guild_id -> row, or Nil
    messages,        \* the sink's messages: message id -> displayed payload
    loops,           \* the status_loop tasks created so far
    cmd,             \* the slash command being served, or Nil
    last_refresh,    \* the refresh that got past fetch_message in the last step, or Nil
    \* milestone tracker
    tracked,         \* the TrackedFlight rows
    next_id,         \* the id the next row gets
    tick,            \* milestone poll ticks so far
    notified         \* id -> the ticks that emitted its takeoff and landing notifications

schedVars == <<html, flights, next2, spc>>
resVars   == <<fa_query, fa_resp, fa_out, rpc>>
pubVars   == <<guild_settings, messages, loops, cmd, last_refresh>>
trkVars   == <<tracked, next_id, tick, notified>>
vars      == <<today, schedVars, resVars, pubVars, trkVars>>

-----------------------------------------------------------------------------
(* Bounds of the model                                                      *)

MaxRows == 2          \* rows of a schedule page
MaxInst == 2          \* instances in one answer of the status source
MaxSlot == 2          \* departure instants offered: one every 12 hours, 0..MaxSlot
MaxGuild == 2         \* guilds with a row in guild_settings when one loop is studied
MaxMsg == 2           \* status messages the set_status_message command may create
MaxReady == 2         \* times the ready event fires
MaxLeg == 2           \* legs (channel, flight number, date) the schedule import sees
MaxId == 2            \* TrackedFlight rows ever created
MaxTick == 2          \* milestone poll ticks

-----------------------------------------------------------------------------
(* Text                                                                     *)

\* Python's None where a text is expected, where a dict is expected, and where an
\* instant is expected
None == <<-1>>
Nil == [nil |-> TRUE]
\* an exception leaving a call
Raised == [raised |-> TRUE]
NoTime == -1

IsDigit(c) == c >= 48 /\ c <= 57
Dig(c)     == c - 48
Num2(s, i) == Dig(s[i]) * 10 + Dig(s[i + 1])
Num4(s, i) == Num2(s, i) * 100 + Num2(s, i + 2)

\* Python's str >= str: lexicographic on code points, a proper prefix is smaller
RECURSIVE StrGeq(_, _)
StrGeq(a, b) ==
    IF b = <<>> THEN TRUE
    ELSE IF a = <<>> THEN FALSE
    ELSE IF Head(a) # Head(b) THEN Head(a) > Head(b)
    ELSE StrGeq(Tail(a), Tail(b))

\* the strict date pattern ^\d{4}-\d{2}-\d{2}$
IsDateText(s) ==
    /\ Len(s) = 10
    /\ s[5] = 45 /\ s[8] = 45
    /\ \A i \in {1, 2, 3, 4, 6, 7, 9, 10} : IsDigit(s[i])

IsLeap(y) == (y % 4 = 0 /\ y % 100 # 0) \/ y % 400 = 0

DaysIn(y, m) ==
    IF m = 2 THEN (IF IsLeap(y) THEN 29 ELSE 28)
    ELSE IF m \in {4, 6, 9, 11} THEN 30 ELSE 31

\* datetime.fromisoformat on a date: <<y, m, d>>, or None where it raises ValueError
ParseDate(s) ==
    IF ~IsDateText(s) THEN None
    ELSE LET y == Num4(s, 1)
             m == Num2(s, 6)
             d == Num2(s, 9)
         IN  IF y >= 1 /\ m >= 1 /\ m <= 12 /\ d >= 1 /\ d <= DaysIn(y, m)
             THEN <<y, m, d>> ELSE None

\* datetime.fromisoformat on "YYYY-MM-DD HH:MM": <<y, m, d, hh, mm>>, or None where
\* it raises (the seconds and offset forms are not in the modelled pages)
FromIsoFormat(s) ==
    IF Len(s) # 16 THEN None
    ELSE LET dt == ParseDate(SubSeq(s, 1, 10))
         IN  IF dt = None THEN None
             ELSE IF ~(IsDigit(s[12]) /\ IsDigit(s[13]) /\ s[14] = 58
                       /\ IsDigit(s[15]) /\ IsDigit(s[16])) THEN None
             ELSE IF Num2(s, 12) > 23 \/ Num2(s, 15) > 59 THEN None
             ELSE dt \o <<Num2(s, 12), Num2(s, 15)>>

\* datetime.max, as a key that is above every "YYYY-MM-DD HH:MM"
DatetimeMax == <<9999, 12, 31, 23, 60>>

\* datetime < datetime on the five-field keys
RECURSIVE TupleLess(_, _)
TupleLess(a, b) ==
    IF a = <<>> \/ b = <<>> THEN FALSE
    ELSE IF Head(a) # Head(b) THEN Head(a) < Head(b)
    ELSE TupleLess(Tail(a), Tail(b))

-----------------------------------------------------------------------------
(* parse_fr24                                                               *)

MinCols == 11

OrNone(s) == IF s = <<>> THEN None ELSE s

Leg(tds) ==
    [date      |-> tds[1],
     flight    |-> tds[2],
     reg       |-> OrNone(tds[3]),
     origin    |-> tds[4],
     dest      |-> tds[5],
     dist      |-> OrNone(tds[6]),
     sched_dep |-> tds[7],
     sched_arr |-> tds[8],
     airline   |-> tds[9],
     aircraft  |-> tds[10],
     seat      |-> OrNone(tds[11])]

RECURSIVE parse_fr24(_)
parse_fr24(rows) ==
    IF rows = <<>> THEN <<>>
    ELSE IF Len(Head(rows)) < MinCols THEN parse_fr24(Tail(rows))
    ELSE <<Leg(Head(rows))>> \o parse_fr24(Tail(rows))

-----------------------------------------------------------------------------
(* get_next_two_flights                                                     *)

flight_dt_min(f) ==
    LET k == FromIsoFormat(f.date \o <<32>> \o f.sched_dep)
    IN  IF k = None THEN <<0, 0, 0, 0, 0>> ELSE k

flight_dt(f) ==
    LET k == FromIsoFormat(f.date \o <<32>> \o f.sched_dep)
    IN  IF k = None THEN DatetimeMax ELSE k

\* list.sort(key=flight_dt): stable, ascending
RECURSIVE InsertByKey(_, _)
InsertByKey(x, s) ==
    IF s = <<>> THEN <<x>>
    ELSE IF TupleLess(flight_dt(x), flight_dt(Head(s))) THEN <<x>> \o s
    ELSE <<Head(s)>> \o InsertByKey(x, Tail(s))

RECURSIVE SortByKey(_)
SortByKey(s) ==
    IF s = <<>> THEN <<>>
    ELSE InsertByKey(s[Len(s)], SortByKey(SubSeq(s, 1, Len(s) - 1)))

IsFuture_all(f, td) == TRUE

IsFuture(f, td) == StrGeq(f.date, td)

get_next_two_flights(fl, td) ==
    LET future == SelectSeq(fl, LAMBDA f : IsFuture(f, td))
    IN  IF future = <<>> THEN <<Nil, Nil>>
        ELSE LET s == SortByKey(future)
             IN  <<s[1], IF Len(s) > 1 THEN s[2] ELSE Nil>>

-----------------------------------------------------------------------------
(* Instants and the operator's timezone                                     *)

LeapsBefore(y) == ((y - 1) \div 4) - ((y - 1) \div 100) + ((y - 1) \div 400)

RECURSIVE DaysBeforeMonth(_, _)
DaysBeforeMonth(y, m) ==
    IF m = 1 THEN 0 ELSE DaysBeforeMonth(y, m - 1) + DaysIn(y, m - 1)

\* date.toordinal()
Ordinal(d) == 365 * (d[1] - 1) + LeapsBefore(d[1]) + DaysBeforeMonth(d[1], d[2]) + d[3]

\* midnight of a date as hours since 2025-01-01T00:00, on whichever clock reads it
HoursAt(d) == (Ordinal(d) - Ordinal(<<2025, 1, 1>>)) * 24

\* ZoneInfo("America/Los_Angeles") in 2025: daylight time from 2025-03-09T10:00Z
\* (02:00 local) to 2025-11-02T09:00Z (02:00 local)
DstStartUtc == HoursAt(<<2025, 3, 9>>) + 10
DstEndUtc   == HoursAt(<<2025, 11, 2>>) + 9

UtcOffset(t) == IF t >= DstStartUtc /\ t < DstEndUtc THEN -7 ELSE -8

\* the offset zoneinfo gives a local wall-clock hour (fold = 0)
WallOffset(w) ==
    IF w >= HoursAt(<<2025, 3, 9>>) + 3 /\ w < HoursAt(<<2025, 11, 2>>) + 2
    THEN -7 ELSE -8

\* dt.astimezone(LOCAL_TZ): the local wall-clock hour of an instant
astimezone_local(t) == t + UtcOffset(t)

\* local wall-clock hour -> UTC instant
astimezone_utc(w) == w - WallOffset(w)

\* the calendar day (an ordinal) of a wall-clock hour, and its date()
DayOf(w) == (w \div 24) + Ordinal(<<2025, 1, 1>>)

parse_iso(ts) == IF ts = NoTime THEN NoTime ELSE ts

-----------------------------------------------------------------------------
(* get_fa_instance                                                          *)

WindowBefore == 12
WindowAfter  == 36

\* f.get("scheduled_off") parsed, or else f.get("estimated_off") parsed
OffOf(f) ==
    IF parse_iso(f.scheduled_off) # NoTime THEN parse_iso(f.scheduled_off)
    ELSE parse_iso(f.estimated_off)

SameLocalDate_off(off_local, target) == DayOf(off_local) <= Ordinal(target)

SameLocalDate(off_local, target) == DayOf(off_local) = Ordinal(target)

Landed_never(f) == FALSE

Landed(f) == f.actual_on # NoTime

\* the loop over r.json()["flights"]: the <<off_local, f>> pairs kept, in order
RECURSIVE Candidates(_, _)
Candidates(fs, target) ==
    IF fs = <<>> THEN <<>>
    ELSE LET f == Head(fs)
             rest == Candidates(Tail(fs), target)
         IN  IF Landed(f) THEN rest
             ELSE IF OffOf(f) = NoTime THEN rest
             ELSE IF ~SameLocalDate(astimezone_local(OffOf(f)), target) THEN rest
             ELSE <<<<astimezone_local(OffOf(f)), f>>>> \o rest

\* candidates.sort(key=lambda x: x[0]): stable, ascending
RECURSIVE InsertByOff(_, _)
InsertByOff(x, s) ==
    IF s = <<>> THEN <<x>>
    ELSE IF x[1] < Head(s)[1] THEN <<x>> \o s
    ELSE <<Head(s)>> \o InsertByOff(x, Tail(s))

RECURSIVE SortByOff(_)
SortByOff(s) ==
    IF s = <<>> THEN <<>>
    ELSE InsertByOff(s[Len(s)], SortByOff(SubSeq(s, 1, Len(s) - 1)))

\* the request's start and end parameters
Window(fr24_date) ==
    LET d == HoursAt(ParseDate(fr24_date))
    IN  [start |-> astimezone_utc(d - WindowBefore),
         end   |-> astimezone_utc(d + WindowAfter)]

\* the result: Raised where fromisoformat or requests.get raises, Nil for None, else
\* the instance
get_fa_instance(fr24_date, resp) ==
    IF ParseDate(fr24_date) = None THEN Raised
    ELSE IF resp = Raised THEN Raised
    ELSE IF resp.status_code # 200 THEN Nil
    ELSE LET candidates == Candidates(resp.flights, ParseDate(fr24_date))
         IN  IF candidates = <<>> THEN Nil
             ELSE SortByOff(candidates)[1][2]

-----------------------------------------------------------------------------
(* The inputs of the pure functions                                         *)

\* "2025-03-09", "2025-03-10", "2025-03-11" and a header cell "DATE"
D0309 == <<50, 48, 50, 53, 45, 48, 51, 45, 48, 57>>
D0310 == <<50, 48, 50, 53, 45, 48, 51, 45, 49, 48>>
D0311 == <<50, 48, 50, 53, 45, 48, 51, 45, 49, 49>>
DHead == <<68, 65, 84, 69>>
\* "08:00", "17:30" and "TBD"
T0800 == <<48, 56, 58, 48, 48>>
T1730 == <<49, 55, 58, 51, 48>>
TTbd  == <<84, 66, 68>>
\* "DL882", "N801DZ", "SAN", "ATL", "1892", "12:05", "DAL", "B739", "12A", "Y"
FlightNo == <<68, 76, 56, 56, 50>>

DateTexts == {D0309, D0310, D0311, DHead}
DepTexts  == {T0800, T1730, TTbd}
ColCounts == {MinCols - 1, MinCols}
Todays    == {D0310, D0311}

\* the <td> texts of one row, cut to n columns
Cells(d, t, n) ==
    SubSeq(<<d, FlightNo, <<78, 56, 48, 49, 68, 90>>, <<83, 65, 78>>, <<65, 84, 76>>,
             <<>>, t, <<49, 50, 58, 48, 53>>, <<68, 65, 76>>, <<66, 55, 51, 57>>,
             <<49, 50, 65>>, <<89>>>>, 1, n)

RowSet == {Cells(d, t, n) : d \in DateTexts, t \in DepTexts, n \in ColCounts}

RECURSIVE SeqsUpTo(_, _)
SeqsUpTo(S, n) ==
    IF n = 0 THEN {<<>>}
    ELSE LET shorter == SeqsUpTo(S, n - 1)
         IN  shorter \cup {Append(q, x) : q \in shorter, x \in S}

Pages == SeqsUpTo(RowSet, MaxRows)

\* departure instants: 2025-03-10T03:00Z (19:00 or 20:00 the evening before in Los
\* Angeles) and every 12 hours after it
OffTimes == {HoursAt(<<2025, 3, 10>>) + 3 + 12 * k : k \in 0..MaxSlot}

Instances ==
    [actual_on     : {NoTime, HoursAt(<<2025, 3, 12>>)},
     scheduled_off : {NoTime} \cup OffTimes,
     estimated_off : {NoTime} \cup OffTimes]

\* a non-success answer carries no flights
Responses ==
    {[status_code |-> 200, flights |-> fs] : fs \in SeqsUpTo(Instances, MaxInst)}
        \cup {[status_code |-> 401, flights |-> <<>>], [status_code |-> 429, flights |-> <<>>]}

Queries ==
    {[flight_no |-> FlightNo, fr24_date |-> d,
      start |-> Window(d).start, end |-> Window(d).end] : d \in {D0310, D0311}}

-----------------------------------------------------------------------------
(* The schedule pipeline: a page is fetched, extracted, and the next two    *)
(* legs are selected                                                        *)

IdleSchedule == html = <<>> /\ flights = <<>> /\ next2 = <<Nil, Nil>> /\ spc = "idle"

IdleResolver ==
    /\ fa_query = [flight_no |-> <<>>, fr24_date |-> <<>>, start |-> 0, end |-> 0]
    /\ fa_resp = [status_code |-> 0, flights |-> <<>>]
    /\ fa_out = Nil
    /\ rpc = "idle"

IdlePublisher ==
    /\ guild_settings = <<>>
    /\ messages = <<>>
    /\ loops = <<>>
    /\ cmd = Nil
    /\ last_refresh = Nil

IdleTracker == tracked = {} /\ next_id = 1 /\ tick = 0 /\ notified = <<>>

InitSchedule ==
    /\ html \in Pages
    /\ today \in Todays
    /\ flights = <<>>
    /\ next2 = <<Nil, Nil>>
    /\ spc = "fetched"
    /\ IdleResolver /\ IdlePublisher /\ IdleTracker

Extract ==
    /\ spc = "fetched"
    /\ flights' = parse_fr24(html)
    /\ spc' = "extracted"
    /\ UNCHANGED <<html, today, next2, resVars, pubVars, trkVars>>

Select ==
    /\ spc = "extracted"
    /\ next2' = get_next_two_flights(flights, today)
    /\ spc' = "selected"
    /\ UNCHANGED <<html, today, flights, resVars, pubVars, trkVars>>

NextSchedule == Extract \/ Select
SpecSchedule == InitSchedule /\ [][NextSchedule]_vars

(* The resolver: one request, one answer of the status source               *)

InitResolver ==
    /\ fa_query \in Queries
    /\ fa_resp \in Responses
    /\ fa_out = Nil
    /\ rpc = "called"
    /\ today = D0310
    /\ IdleSchedule /\ IdlePublisher /\ IdleTracker

Resolve ==
    /\ rpc = "called"
    /\ fa_out' = get_fa_instance(fa_query.fr24_date, fa_resp)
    /\ rpc' = "returned"
    /\ UNCHANGED <<fa_query, fa_resp, today, schedVars, pubVars, trkVars>>

NextResolver == Resolve
SpecResolver == InitResolver /\ [][NextResolver]_vars

-----------------------------------------------------------------------------
(* The status publisher                                                     *)

Guilds == 1..MaxGuild

\* what the sink and the two upstream sources may answer during a refresh
FutureOne == Cells(D0310, T1730, MinCols)
FutureTwo == Cells(D0311, T0800, MinCols)

SamplePages ==
    {<<>>,
     <<Cells(D0309, T0800, MinCols)>>,
     <<FutureOne>>,
     <<FutureTwo, FutureOne>>,
     <<Cells(DHead, TTbd, MinCols + 1)>>}

\* the answers of requests.get(FR24_URL): a page, a non-success status, or a raise
Fr24Answers ==
    {[status_code |-> 200, text |-> pg] : pg \in SamplePages}
        \cup {[status_code |-> 503, text |-> <<>>], Raised}

\* the answers of the status source during a refresh
FaAnswers ==
    {[status_code |-> 200, flights |-> <<>>],
     [status_code |-> 200,
      flights |-> <<[actual_on |-> NoTime,
                     scheduled_off |-> HoursAt(<<2025, 3, 11>>) + 1,
                     estimated_off |-> NoTime]>>],
     [status_code |-> 401, flights |-> <<>>],
     Raised}

\* bot.get_guild / guild.get_channel for one refresh
SinkStates == {"ok", "no_guild", "no_channel"}

Updating == [description |-> "Updating"]

\* the embed: its description, its Status field and whether it has an After-that field
status_embed(fr, fa, after) ==
    IF fr = Nil THEN [description |-> "No upcoming flights detected."]
    ELSE [description |-> fr.flight,
          scheduled   |-> <<fr.date, fr.sched_dep>>,
          status      |-> IF fa # Nil THEN "from FlightAware"
                          ELSE "Timing pending from FlightAware",
          after       |-> after # Nil]

\* refresh_status_internal up to its first await: Nil where it returns early,
\* else the frame that awaits channel.fetch_message
refresh_begin(gid, sink) ==
    LET row == guild_settings[gid]
    IN  IF row = Nil THEN Nil
        ELSE IF sink = "no_guild" THEN Nil
        ELSE IF sink = "no_channel" THEN Nil
        ELSE [guild_id |-> gid, ch_id |-> row.status_channel,
              msg_id |-> row.status_message, payload |-> Nil]

\* flights = parse_fr24(r.text) if r.status_code == 200 else []
fetched_flights(fr) == IF fr.status_code = 200 THEN parse_fr24(fr.text) ELSE <<>>

\* refresh_status_internal from fetch_message's return to the call of msg.edit:
\* Raised, or the embed handed to msg.edit, with whether the resolver was called
refresh_sync(fr, fa) ==
    IF fr = Raised THEN [outcome |-> "raised", fa_called |-> FALSE, payload |-> Nil]
    ELSE LET n2 == get_next_two_flights(fetched_flights(fr), today)
             inst == IF n2[1] # Nil THEN get_fa_instance(n2[1].date, fa) ELSE Nil
         IN  IF inst = Raised
             THEN [outcome |-> "raised", fa_called |-> TRUE, payload |-> Nil]
             ELSE [outcome |-> "edit", fa_called |-> n2[1] # Nil,
                   payload |-> status_embed(n2[1], inst, n2[2])]

\* the record kept of a refresh that got past fetch_message
RefreshRecord(frame, fr, fa, res) ==
    [guild_id |-> frame.guild_id,
     msg_id   |-> frame.msg_id,
     bound    |-> guild_settings[frame.guild_id].status_message,
     fr       |-> fr,
     fa       |-> fa,
     asked    |-> res.fa_called,
     outcome  |-> res.outcome,
     payload  |-> res.payload]

\* a status_loop task: its place, the guild ids its tick read, the ones whose refresh
\* it has called in this tick, the ones still to come, the ones whose refresh raised,
\* and the frame of the refresh it awaits
NewLoop ==
    [pc |-> "start", snapshot |-> <<>>, attempted |-> <<>>, todo |-> <<>>,
     raised |-> {}, frame |-> Nil]

\* the for loop of status_loop from guild ids todo on, run to its next await: the
\* fetch_message of a refresh, or asyncio.sleep
RECURSIVE run_for(_, _, _)
run_for(l, todo, sink) ==
    IF todo = <<>> THEN [l EXCEPT !.pc = "sleep", !.todo = <<>>, !.frame = Nil]
    ELSE LET gid == Head(todo)
             started == [l EXCEPT !.attempted = Append(@, gid)]
             frame == refresh_begin(gid, sink[gid])
         IN  IF frame = Nil THEN run_for(started, Tail(todo), sink)
             ELSE [started EXCEPT !.pc = "fetch_message", !.todo = Tail(todo),
                                  !.frame = frame]

\* try: await refresh_status_internal(gid) / except: pass
on_raise_unhandled(l, sink) == [l EXCEPT !.pc = "dead", !.frame = Nil]

on_raise(l, sink) ==
    run_for([l EXCEPT !.raised = @ \cup {l.frame.guild_id}], l.todo, sink)

\* SELECT guild_id FROM guild_settings
select_guild_ids ==
    LET RECURSIVE upto(_)
        upto(n) == IF n = 0 THEN <<>>
                   ELSE IF guild_settings[n] = Nil THEN upto(n - 1)
                   ELSE Append(upto(n - 1), n)
    IN  upto(Len(guild_settings))

\* msg.edit(embed=...) reaching the sink
edited(frame) == [messages EXCEPT ![frame.msg_id] = frame.payload]

\* whether a refresh that was answered fr goes on to ask the status source, and the
\* answers the status source may then give (Nil: it is not asked)
asks_resolver(fr) ==
    fr # Raised /\ get_next_two_flights(fetched_flights(fr), today)[1] # Nil

AnswersAfter(fr, fas) == IF asks_resolver(fr) THEN fas ELSE {Nil}

\* the sink's answers to the refreshes of the guild ids in q
Range(q) == {q[k] : k \in DOMAIN q}
SinkAnswers(q) == [Range(q) -> SinkStates]

(* status_loop: a tick begins (the task's first run, or asyncio.sleep ends)  *)
LoopTick(i) ==
    /\ loops[i].pc \in {"start", "sleep"}
    /\ \E sink \in SinkAnswers(select_guild_ids) :
          loops' = [loops EXCEPT ![i] =
              run_for([NewLoop EXCEPT !.snapshot = select_guild_ids],
                      select_guild_ids, sink)]
    /\ last_refresh' = Nil
    /\ UNCHANGED <<guild_settings, messages, cmd, today, schedVars, resVars, trkVars>>

(* status_loop: channel.fetch_message returns or raises; on a return the      *)
(* refresh runs on to msg.edit                                               *)
LoopFetchReturns(i, frs, fas) ==
    /\ loops[i].pc = "fetch_message"
    /\ \/ /\ \E sink \in SinkAnswers(loops[i].todo) :
                loops' = [loops EXCEPT ![i] = on_raise(loops[i], sink)]
          /\ last_refresh' = Nil
       \/ \E fr \in frs : \E fa \in AnswersAfter(fr, fas) :
             LET res == refresh_sync(fr, fa)
             IN  /\ last_refresh' = RefreshRecord(loops[i].frame, fr, fa, res)
                 /\ IF res.outcome = "raised"
                    THEN \E sink \in SinkAnswers(loops[i].todo) :
                            loops' = [loops EXCEPT ![i] = on_raise(loops[i], sink)]
                    ELSE loops' = [loops EXCEPT ![i].pc = "edit",
                                                ![i].frame.payload = res.payload]
    /\ UNCHANGED <<guild_settings, messages, cmd, today, schedVars, resVars, trkVars>>

(* status_loop: msg.edit returns or raises                                    *)
LoopEditReturns(i) ==
    /\ loops[i].pc = "edit"
    /\ \E sink \in SinkAnswers(loops[i].todo) :
          \/ /\ messages' = edited(loops[i].frame)
             /\ loops' = [loops EXCEPT ![i] = run_for(loops[i], loops[i].todo, sink)]
          \/ /\ loops' = [loops EXCEPT ![i] = on_raise(loops[i], sink)]
             /\ UNCHANGED messages
    /\ last_refresh' = Nil
    /\ UNCHANGED <<guild_settings, cmd, today, schedVars, resVars, trkVars>>

(* on_ready: the ready event fires                                            *)
on_ready ==
    /\ Len(loops) < MaxReady
    /\ loops' = Append(loops, NewLoop)
    /\ last_refresh' = Nil
    /\ UNCHANGED <<guild_settings, messages, cmd, today, schedVars, resVars, trkVars>>

\* the command's own refresh: the command ends where the refresh returns early
command_refresh(kind, gid, sink) ==
    IF refresh_begin(gid, sink) = Nil THEN Nil
    ELSE [kind |-> kind, pc |-> "fetch_message", frame |-> refresh_begin(gid, sink)]

(* /set_status_message: the placeholder is sent and the row is upserted       *)
set_status_message(gid) ==
    /\ cmd = Nil
    /\ Len(messages) < MaxMsg
    /\ messages' = Append(messages, Updating)
    /\ guild_settings' = [guild_settings EXCEPT ![gid] =
          [status_channel |-> gid, status_message |-> Len(messages) + 1]]
    /\ cmd' = [kind |-> "set_status_message", pc |-> "pin",
               frame |-> [guild_id |-> gid]]
    /\ last_refresh' = Nil
    /\ UNCHANGED <<loops, today, schedVars, resVars, trkVars>>

(* /set_status_message: msg.pin returns or raises, the refresh begins         *)
CommandPinReturns ==
    /\ cmd # Nil /\ cmd.pc = "pin"
    /\ \E sink \in SinkStates :
          cmd' = command_refresh(cmd.kind, cmd.frame.guild_id, sink)
    /\ last_refresh' = Nil
    /\ UNCHANGED <<guild_settings, messages, loops, today, schedVars, resVars, trkVars>>

(* /refresh_status: the refresh begins                                        *)
refresh_status(gid) ==
    /\ cmd = Nil
    /\ command_refresh("refresh_status", gid, "ok") # Nil
    /\ cmd' = command_refresh("refresh_status", gid, "ok")
    /\ last_refresh' = Nil
    /\ UNCHANGED <<guild_settings, messages, loops, today, schedVars, resVars, trkVars>>

(* a command's refresh: fetch_message returns or raises; an exception ends    *)
(* the command                                                               *)
CommandFetchReturns(frs, fas) ==
    /\ cmd # Nil /\ cmd.pc = "fetch_message"
    /\ \/ cmd' = Nil /\ last_refresh' = Nil
       \/ \E fr \in frs : \E fa \in AnswersAfter(fr, fas) :
             LET res == refresh_sync(fr, fa)
             IN  /\ last_refresh' = RefreshRecord(cmd.frame, fr, fa, res)
                 /\ cmd' = IF res.outcome = "raised" THEN Nil
                           ELSE [cmd EXCEPT !.pc = "edit", !.frame.payload = res.payload]
    /\ UNCHANGED <<guild_settings, messages, loops, today, schedVars, resVars, trkVars>>

(* a command's refresh: msg.edit returns or raises, the command ends          *)
CommandEditReturns ==
    /\ cmd # Nil /\ cmd.pc = "edit"
    /\ \/ messages' = edited(cmd.frame)
       \/ UNCHANGED messages
    /\ cmd' = Nil
    /\ last_refresh' = Nil
    /\ UNCHANGED <<guild_settings, loops, today, schedVars, resVars, trkVars>>

\* the guild the commands are invoked in
CommandGuilds == {1}

(* One status_loop over a table of bindings                                  *)
InitTick ==
    /\ guild_settings \in
          {[g \in Guilds |-> IF g \in B
                             THEN [status_channel |-> g, status_message |-> g]
                             ELSE Nil] : B \in SUBSET Guilds}
    /\ messages = [g \in Guilds |-> Updating]
    /\ loops = <<NewLoop>>
    /\ cmd = Nil
    /\ last_refresh = Nil
    /\ today = D0310
    /\ IdleSchedule /\ IdleResolver /\ IdleTracker

NextTick == LoopTick(1) \/ LoopFetchReturns(1, Fr24Answers, FaAnswers) \/ LoopEditReturns(1)
SpecTick == InitTick /\ [][NextTick]_vars

\* the event loop resumes a task whose await has returned, and asyncio.sleep ends
FairSpecTick == SpecTick /\ WF_vars(NextTick)

(* The bot: the ready event, the commands and the loops, in one guild and    *)
(* with two answers of the sources: a page with an upcoming leg that the     *)
(* status source knows, and a failed schedule fetch                          *)
BotFr24Answers ==
    {[status_code |-> 200, text |-> <<FutureOne>>], [status_code |-> 503, text |-> <<>>]}

BotFaAnswers == {fa \in FaAnswers : fa # Raised /\ fa.flights # <<>>}

Init ==
    /\ guild_settings = [g \in CommandGuilds |-> Nil]
    /\ messages = <<>>
    /\ loops = <<>>
    /\ cmd = Nil
    /\ last_refresh = Nil
    /\ today = D0310
    /\ IdleSchedule /\ IdleResolver /\ IdleTracker

Next ==
    \/ on_ready
    \/ \E g \in CommandGuilds : set_status_message(g)
    \/ \E g \in CommandGuilds : refresh_status(g)
    \/ CommandPinReturns
    \/ CommandFetchReturns(BotFr24Answers, BotFaAnswers)
    \/ CommandEditReturns
    \/ \E i \in DOMAIN loops : LoopTick(i)
    \/ \E i \in DOMAIN loops : LoopFetchReturns(i, BotFr24Answers, BotFaAnswers)
    \/ \E i \in DOMAIN loops : LoopEditReturns(i)

Spec == Init /\ [][Next]_vars

-----------------------------------------------------------------------------
(* The milestone tracker, as the design describes it                         *)

Legs == 1..MaxLeg

\* what a poll observes of one tracked flight: no instance, or whether the instance
\* has an actual departure and an actual arrival
Observations ==
    {Nil} \cup [actual_off : BOOLEAN, actual_on : BOOLEAN]

NoNotes == [takeoff |-> {}, landing |-> {}, deleted |-> 0, seen_off |-> 0]

\* schedule import of one leg: a duplicate insert is a no-op
import_leg(rows, leg, id) ==
    IF \E r \in rows : r.leg = leg THEN rows
    ELSE rows \cup {[id |-> id, leg |-> leg, departureNotified |-> FALSE]}

(* schedule import observes a future-dated leg                               *)
ImportLeg(leg) ==
    /\ next_id <= MaxId
    /\ tracked' = import_leg(tracked, leg, next_id)
    /\ IF tracked' = tracked
       THEN UNCHANGED <<next_id, notified>>
       ELSE next_id' = next_id + 1 /\ notified' = Append(notified, NoNotes)
    /\ UNCHANGED <<tick, today, schedVars, resVars, pubVars>>

\* one tracked flight in one poll tick: the row afterwards (Nil when deleted)
poll_row_noflag(r, obs) ==
    IF obs = Nil THEN r
    ELSE IF obs.actual_on THEN Nil
    ELSE r

poll_row(r, obs) ==
    IF obs = Nil THEN r
    ELSE IF obs.actual_on THEN Nil
    ELSE IF obs.actual_off THEN [r EXCEPT !.departureNotified = TRUE]
    ELSE r

\* the notifications one tracked flight gets in one poll tick
poll_takeoff(r, obs) == obs # Nil /\ obs.actual_off /\ ~r.departureNotified
poll_landing(r, obs) == obs # Nil /\ obs.actual_on

(* a milestone poll tick over every tracked flight                           *)
MilestoneTick ==
    /\ tick < MaxTick
    /\ tick' = tick + 1
    /\ \E obs \in [{r.id : r \in tracked} -> Observations] :
          /\ tracked' = {poll_row(r, obs[r.id]) : r \in tracked} \ {Nil}
          /\ notified' =
                [id \in DOMAIN notified |->
                    IF \E r \in tracked : r.id = id
                    THEN LET r == CHOOSE x \in tracked : x.id = id
                         IN  [takeoff  |-> IF poll_takeoff(r, obs[id])
                                          THEN notified[id].takeoff \cup {tick'}
                                          ELSE notified[id].takeoff,
                              landing  |-> IF poll_landing(r, obs[id])
                                          THEN notified[id].landing \cup {tick'}
                                          ELSE notified[id].landing,
                              deleted  |-> IF poll_row(r, obs[id]) = Nil
                                          THEN tick' ELSE 0,
                              seen_off |-> IF obs[id] # Nil /\ obs[id].actual_off
                                          THEN notified[id].seen_off + 1
                                          ELSE notified[id].seen_off]
                    ELSE notified[id]]
    /\ UNCHANGED <<next_id, today, schedVars, resVars, pubVars>>

(* the cancel-tracking command: the channel's rows go, nothing is notified   *)
CancelTracking ==
    /\ tracked # {}
    /\ tracked' = {}
    /\ UNCHANGED <<next_id, tick, notified, today, schedVars, resVars, pubVars>>

InitTracker ==
    /\ tracked = {}
    /\ next_id = 1
    /\ tick = 0
    /\ notified = <<>>
    /\ today = D0310
    /\ IdleSchedule /\ IdleResolver /\ IdlePublisher

NextTracker == (\E leg \in Legs : ImportLeg(leg)) \/ MilestoneTick \/ CancelTracking
SpecTracker == InitTracker /\ [][NextTracker]_vars

-----------------------------------------------------------------------------
(* Properties of the milestone tracker                                      *)

\* C3: for every TrackedFlight, over every sequence of poll ticks, a takeoff
\* notification is emitted on at most one tick, also when the same actual departure
\* is observed again, and a landing notification is emitted on the tick that deletes
\* the row and on no other.
C3_AtMostOnce ==
    \A id \in DOMAIN notified :
        /\ Cardinality(notified[id].takeoff) <= 1
        /\ (\E r \in tracked : r.id = id) => notified[id].landing = {}
        /\ notified[id].deleted # 0 => notified[id].landing = {notified[id].deleted}
        /\ notified[id].deleted = 0 => notified[id].landing = {}

\* a flight whose actual departure was observed on two ticks got one takeoff
\* notification, and its landing notification on the tick that deleted it
C3_Witness ==
    \E id \in DOMAIN notified :
        /\ notified[id].seen_off >= 2
        /\ Cardinality(notified[id].takeoff) = 1
        /\ notified[id].deleted # 0
        /\ notified[id].landing = {notified[id].deleted}

-----------------------------------------------------------------------------
(* Properties of the status publisher                                       *)

\* C4: within one tick of status_loop, whichever bindings fail (guild or channel
\* missing, fetch_message, the upstream requests or the edit raising), every guild id
\* read at the start of the tick has its refresh called once, in order, before the
\* loop sleeps; the loop never ends, and it comes to sleep again and again.
C4_TickIsolated ==
    \A i \in DOMAIN loops :
        /\ loops[i].pc # "dead"
        /\ loops[i].attempted \o loops[i].todo = loops[i].snapshot
        /\ loops[i].pc = "sleep" => loops[i].attempted = loops[i].snapshot

\* C4: one guild's failed refresh never keeps the status loop from refreshing the
\* other guilds of the tick, and never ends the loop: every state satisfies the
\* per-tick bookkeeping above, and the loop is asleep between ticks infinitely often.
C4_Isolation == []C4_TickIsolated /\ []<>(loops[1].pc = "sleep")

\* a tick over two bindings went to sleep after the first one's refresh had raised
\* and the second one's had been called
C4_Witness ==
    /\ loops[1].pc = "sleep"
    /\ loops[1].snapshot = <<1, 2>>
    /\ loops[1].attempted = <<1, 2>>
    /\ 1 \in loops[1].raised

\* C5: when the schedule fetch of a refresh is answered with a non-success status,
\* the refresh makes no edit of the status message.
C5_NoEditOnFailedFetch ==
    (last_refresh # Nil /\ last_refresh.fr # Raised /\ last_refresh.fr.status_code # 200)
        => last_refresh.outcome # "edit"

\* the legs of the page a refresh fetched, and whether none is dated today or later
RefLegs == parse_fr24(last_refresh.fr.text)
RefNoUpcoming == \A k \in DOMAIN RefLegs : ~StrGeq(RefLegs[k].date, today)
RefNotFound ==
    LET n2 == get_next_two_flights(RefLegs, today)
    IN  n2[1] # Nil /\ get_fa_instance(n2[1].date, last_refresh.fa) = Nil

\* C8: when the schedule is fetched with success and holds no leg dated today or
\* later, the refresh does not ask the resolver and calls msg.edit with the "no
\* upcoming flights" embed, raising nothing on the way; when there is a next leg and
\* the resolver returns None, it calls msg.edit with the pending-data status.
C8_Placeholder ==
    (last_refresh # Nil /\ last_refresh.fr # Raised /\ last_refresh.fr.status_code = 200)
        => /\ RefNoUpcoming =>
                /\ ~last_refresh.asked
                /\ last_refresh.outcome = "edit"
                /\ last_refresh.payload = [description |-> "No upcoming flights detected."]
           /\ (~RefNoUpcoming /\ RefNotFound) =>
                /\ last_refresh.outcome = "edit"
                /\ last_refresh.payload.status = "Timing pending from FlightAware"

\* a page holding only a leg of yesterday was fetched and the placeholder was handed
\* to msg.edit
C8_Witness ==
    /\ last_refresh # Nil /\ last_refresh.fr # Raised
    /\ last_refresh.fr.status_code = 200
    /\ Len(last_refresh.fr.text) = 1
    /\ RefNoUpcoming
    /\ last_refresh.outcome = "edit"
    /\ loops[1].pc = "edit"
    /\ loops[1].frame.payload = [description |-> "No upcoming flights detected."]

\* C9: at most one status_loop task runs, however often the ready event fires.
C9_SingleLoop == Len(loops) <= 1

\* C10: a refresh hands msg.edit only the message that guild_settings binds to the
\* guild at that moment, whatever set_status_message did while the refresh awaited.
C10_NoStaleEdit ==
    (last_refresh # Nil /\ last_refresh.outcome = "edit")
        => last_refresh.msg_id = last_refresh.bound

-----------------------------------------------------------------------------
(* Properties of the resolver                                               *)

\* the scheduled-or-estimated departure of an instance, and its local calendar day
RefDeparture(f) == IF f.scheduled_off # NoTime THEN f.scheduled_off ELSE f.estimated_off
RefLocalDay(f)  == DayOf(astimezone_local(RefDeparture(f)))
RefTargetDay    == Ordinal(ParseDate(fa_query.fr24_date))

\* C1: whenever get_fa_instance returns an instance, the local (Los Angeles) calendar
\* date of its scheduled-or-estimated departure is the requested date; an instance of
\* an adjacent local date is never returned, even when it is the only one answered.
C1_StrictDate ==
    (rpc = "returned" /\ fa_out # Nil /\ fa_out # Raised)
        => /\ RefDeparture(fa_out) # NoTime
           /\ RefLocalDay(fa_out) = RefTargetDay

\* an instance was returned although an unlanded instance of the day before comes
\* first in the answer
C1_Witness ==
    /\ rpc = "returned" /\ fa_out # Nil
    /\ Len(fa_resp.flights) = 2
    /\ fa_resp.flights[1].actual_on = NoTime
    /\ RefDeparture(fa_resp.flights[1]) # NoTime
    /\ RefLocalDay(fa_resp.flights[1]) = RefTargetDay - 1

\* the instances that survive the filtering: not landed, with a departure, on the
\* requested local date
RefSurvivors ==
    {i \in DOMAIN fa_resp.flights :
        /\ fa_resp.flights[i].actual_on = NoTime
        /\ RefDeparture(fa_resp.flights[i]) # NoTime
        /\ RefLocalDay(fa_resp.flights[i]) = RefTargetDay}

\* C2: the result is the survivor with the earliest local departure among the
\* instances answered, after discarding the landed ones and those of another local
\* date; it is None exactly when the answer is a non-success one or nothing survives.
C2_ReferenceSelection ==
    rpc = "returned" =>
        IF fa_resp.status_code # 200 \/ RefSurvivors = {}
        THEN fa_out = Nil
        ELSE \E i \in RefSurvivors :
                /\ fa_out = fa_resp.flights[i]
                /\ \A j \in RefSurvivors :
                      astimezone_local(RefDeparture(fa_resp.flights[i]))
                          <= astimezone_local(RefDeparture(fa_resp.flights[j]))

\* a landed instance of the requested date, departing earlier, was passed over
C2_Witness ==
    /\ rpc = "returned" /\ fa_out # Nil
    /\ Len(fa_resp.flights) = 2
    /\ fa_resp.flights[1].actual_on # NoTime
    /\ RefDeparture(fa_resp.flights[1]) # NoTime
    /\ RefLocalDay(fa_resp.flights[1]) = RefTargetDay
    /\ RefDeparture(fa_resp.flights[1]) < RefDeparture(fa_out)
    /\ fa_out = fa_resp.flights[2]

-----------------------------------------------------------------------------
(* Properties of the schedule pipeline                                      *)

\* the rows the extractor is specified to accept
RECURSIVE RefAccepted(_)
RefAccepted(rows) ==
    IF rows = <<>> THEN <<>>
    ELSE IF Len(Head(rows)) >= MinCols /\ IsDateText(Head(rows)[1])
         THEN <<Leg(Head(rows))>> \o RefAccepted(Tail(rows))
         ELSE RefAccepted(Tail(rows))

\* C6: every leg parse_fr24 emits has a date matching YYYY-MM-DD; a row with fewer
\* than the minimum number of columns, or whose first column is not such a date, is
\* not in the output, and the other rows of the page are.
C6_DatePattern ==
    spc # "fetched" =>
        /\ \A i \in DOMAIN flights : IsDateText(flights[i].date)
        /\ flights = RefAccepted(html)

RefFuture == {i \in DOMAIN flights : StrGeq(flights[i].date, today)}
RefParsed(f) == FromIsoFormat(f.date \o <<32>> \o f.sched_dep)

\* leg i comes before leg j: by date and departure time, a leg that fails to parse
\* after every leg that parses, the page's order among equals
RefBefore(i, j) ==
    LET a == RefParsed(flights[i])
        b == RefParsed(flights[j])
    IN  IF a # None /\ b # None THEN TupleLess(a, b) \/ (a = b /\ i < j)
        ELSE IF a # None THEN TRUE
        ELSE IF b # None THEN FALSE
        ELSE i < j

RefFirst(S) == CHOOSE i \in S : \A j \in S \ {i} : RefBefore(i, j)

\* C7: get_next_two_flights returns the first and the second of the legs dated today
\* or later (the date text compared with today's), in ascending order of date and
\* departure time with the legs that fail to parse last; the second is None when
\* there is one such leg, and the result is (None, None) exactly when there is none.
C7_NextTwo ==
    spc = "selected" =>
        IF RefFuture = {} THEN next2 = <<Nil, Nil>>
        ELSE LET i1 == RefFirst(RefFuture)
             IN  /\ next2[1] = flights[i1]
                 /\ StrGeq(next2[1].date, today)
                 /\ IF RefFuture \ {i1} = {} THEN next2[2] = Nil
                    ELSE /\ next2[2] = flights[RefFirst(RefFuture \ {i1})]
                         /\ StrGeq(next2[2].date, today)

\* a leg that fails to parse came first on the page and was returned second, behind
\* a leg that parses
C7_Witness ==
    /\ spc = "selected"
    /\ Len(flights) = 2
    /\ RefParsed(flights[1]) = None
    /\ RefParsed(flights[2]) # None
    /\ next2 = <<flights[2], flights[1]>>

=============================================================================
